---- MODULE Spec2Model ----
(***************************************************************************)
(* resume-tui (src/main.py): the two timer-driven animations of the        *)
(* resume viewer (RainWidget, DonutWidget) and the rain-sound toggle of    *)
(* ResumeApp, as a state machine.                                          *)
(*                                                                         *)
(* Text is modelled as a sequence of one-character strings, so that a row  *)
(* can be indexed, padded, truncated, joined and split.  Textual runs      *)
(* every handler on one event loop: a handler runs to completion before    *)
(* the next one starts.                                                    *)
(***************************************************************************)
EXTENDS Integers, Sequences, FiniteSets, TLC

VARIABLES
    size,           \* RainWidget.size, <<width, height>>
    rain_lines,     \* RainWidget.rain_lines, a sequence of rows
    rain_timer,     \* TRUE once RainWidget.on_mount registered its interval
    drops,          \* number of times random.random() < density succeeded
    rain_before,    \* self.rain_lines as update_rain found it when it last ran
    donut_size,     \* DonutWidget.size, <<width, height>>
    donut_frame,    \* DonutWidget.donut_frame, the published frame text
    _A,             \* DonutWidget._A, in hundredths of a radian
    _B,             \* DonutWidget._B, in hundredths of a radian
    A,              \* local A of update_donut, in hundredths of a radian
    B,              \* local B of update_donut, in hundredths of a radian
    output,         \* local output of update_donut (0-based cell o is output[o+1])
    zbuffer,        \* local zbuffer of update_donut
    sweep,          \* the samples the double loop of update_donut has visited
    pc,             \* where DonutWidget is: "unmounted", "idle", "sweep", "advance"
    frames,         \* number of assignments to donut_frame so far
    is_raining,     \* ResumeApp.is_raining
    SOUND_LOADED,   \* module flag SOUND_LOADED
    busy,           \* pygame.mixer.music.get_busy()
    button_mounted, \* TRUE when compose mounted the rain button
    button,         \* label and variant of the rain button
    exited,         \* TRUE once action_quit ran
    last            \* name of the handler that ran last

rainVars  == <<size, rain_lines, rain_timer, drops, rain_before>>
donutVars ==
    <<donut_size, donut_frame, _A, _B, A, B, output, zbuffer, sweep, pc, frames>>
shellVars == <<is_raining, SOUND_LOADED, busy, button_mounted, button, exited>>
vars == <<rainVars, donutVars, shellVars, last>>

-----------------------------------------------------------------------------
(* Bounds of the model *)

MaxWidth == 2
MaxHeight == 2
MaxDrops == 1
MaxTicks == 2       \* torus ticks of a run
MaxSweep == 1       \* samples of one sweep, in the specifications of whole runs
MaxSamples == 3     \* samples of one sweep, in the specification of one frame

Min(a, b) == IF a < b THEN a ELSE b
Max(a, b) == IF a > b THEN a ELSE b

-----------------------------------------------------------------------------
(* Text helpers: str.ljust, slicing, str.join, str.split *)

\* line.ljust(width): pad with spaces on the right, never shortens
LJust(line, width) ==
    [i \in 1..Max(Len(line), width) |-> IF i <= Len(line) THEN line[i] ELSE " "]

\* s[:n] for n >= 0
Prefix(s, n) == SubSeq(s, 1, Min(n, Len(s)))

\* faulty variant of LJustCut: the slice [:width] forgotten
LJustOnly(line, width) == LJust(line, width)

\* line.ljust(width)[:width]
LJustCut(line, width) == Prefix(LJust(line, width), width)

RECURSIVE Join(_)
\* "\n".join(rows)
Join(rows) ==
    IF Len(rows) = 0 THEN <<>>
    ELSE IF Len(rows) = 1 THEN rows[1]
    ELSE rows[1] \o <<"\n">> \o Join(Tail(rows))

\* text.split("\n"): n line breaks give n + 1 pieces, the k-th of them the
\* characters between line break k-1 and line break k
Split(text) ==
    LET brk == {i \in 1..Len(text) : text[i] = "\n"}
        n == Cardinality(brk)
        pos(k) == IF k = 0 THEN 0
                  ELSE IF k = n + 1 THEN Len(text) + 1
                  ELSE CHOOSE i \in brk : Cardinality({j \in brk : j < i}) = k - 1
    IN  [k \in 1..(n + 1) |-> SubSeq(text, pos(k - 1) + 1, pos(k) - 1)]

-----------------------------------------------------------------------------
(* RainWidget *)

\* update_donut is running: no other handler starts before it returns
DonutBusy == pc \in {"sweep", "advance"}

RainChars == {"|", ".", ":", "*"}

Glyphs(line) == Cardinality({i \in 1..Len(line) : line[i] \in RainChars})

\* the top lines the random loop can build with at most k drops
TopLines(width, k) ==
    {t \in [1..width -> {" "} \cup RainChars] : Glyphs(t) <= k}

\* faulty variant of Shifted: the loop copies row r instead of row r-1
ShiftedInPlace(old, width, height, top_line) ==
    LET old_lines == Prefix(old, height)
    IN  [i \in 1..height |->
            IF i = 1 THEN top_line
            ELSE IF i <= Len(old_lines)
                 THEN LJustCut(old_lines[i], width)
                 ELSE <<>>]

\* new_lines after the "move existing rain down" loop and the top line
Shifted(old, width, height, top_line) ==
    LET old_lines == Prefix(old, height)
    IN  [i \in 1..height |->
            IF i = 1 THEN top_line
            ELSE IF i - 1 <= Len(old_lines)
                 THEN LJustCut(old_lines[i - 1], width)
                 ELSE <<>>]

\* faulty variant of Padded: the final padding loop left out
PaddedSkip(new_lines, width) == new_lines

\* the final padding loop
Padded(new_lines, width) ==
    [i \in 1..Len(new_lines) |-> LJustCut(new_lines[i], width)]

NewLines(old, width, height, top_line) ==
    Padded(Shifted(old, width, height, top_line), width)

\* faulty variant of Idle: "and" for "or" in the guard
IdleBoth(width, height) == width <= 0 /\ height <= 0

\* the guard of update_rain
Idle(width, height) == width <= 0 \/ height <= 0

\* the body of update_rain
RainTick ==
    LET width == size[1]
        height == size[2]
    IN  /\ rain_before' = rain_lines
        /\ IF Idle(width, height)
           THEN UNCHANGED <<rain_lines, drops>>
           ELSE \E top_line \in TopLines(width, MaxDrops - drops) :
                   /\ rain_lines' = NewLines(rain_lines, width, height, top_line)
                   /\ drops' = drops + Glyphs(top_line)

\* RainWidget.on_mount: one tick, then the 0.2 s interval
rain_on_mount ==
    /\ ~exited /\ ~DonutBusy
    /\ ~rain_timer
    /\ RainTick
    /\ rain_timer' = TRUE
    /\ last' = "rain_on_mount"
    /\ UNCHANGED <<size, donutVars, shellVars>>

\* faulty variant of update_rain: the rain text is also assigned to the
\* frame attribute of the torus
update_rain_shared ==
    /\ ~exited /\ ~DonutBusy
    /\ rain_timer
    /\ RainTick
    /\ donut_frame' = Join(rain_lines')
    /\ last' = "update_rain"
    /\ UNCHANGED <<size, rain_timer, shellVars>>
    /\ UNCHANGED <<donut_size, _A, _B, A, B, output, zbuffer, sweep, pc, frames>>

\* the interval fires
update_rain ==
    /\ ~exited /\ ~DonutBusy
    /\ rain_timer
    /\ RainTick
    /\ last' = "update_rain"
    /\ UNCHANGED <<size, rain_timer, donutVars, shellVars>>

\* Textual lays the widget out again: only the size changes
RainResize(Sizes) ==
    /\ ~exited /\ ~DonutBusy
    /\ \E s \in Sizes :
          /\ s # size
          /\ size' = s
    /\ last' = "rain_resize"
    /\ UNCHANGED <<rain_lines, rain_timer, drops, rain_before, donutVars, shellVars>>

\* RainWidget.render
render ==
    LET height == size[2]
    IN  IF height <= 0 THEN <<>> ELSE Join(Prefix(rain_lines, height))

-----------------------------------------------------------------------------
(* DonutWidget *)

CanvasWidth == 80
CanvasHeight == 22
CanvasCells == 1760
StepA == 5      \* self._A += 0.05, in hundredths
StepB == 3      \* self._B += 0.03, in hundredths

\* the luminance ramp ".,-~:;=!*#$@"
Ramp == <<".", ",", "-", "~", ":", ";", "=", "!", "*", "#", "$", "@">>

\* ".,-~:;=!*#$@"[max(0, N)]
RampChar(N) == Ramp[Max(0, N) + 1]

(***************************************************************************)
(* One sample of the double loop is the tuple (x, y, D, N) the             *)
(* trigonometry yields for one (j, i).  The floating-point projection is   *)
(* not computed here: the samples are inputs, drawn from values the        *)
(* projection takes.  Over the angles the program goes through, x ranges   *)
(* over 17..62, y over 0..23, N over -11..11 and D over (0.125, 0.5); the  *)
(* depths are kept as ranks 1, 2, 3 of three values D1 < D2 < D3, and 0 is *)
(* the 0.0 the z-buffer starts from.                                       *)
(***************************************************************************)
Depths == {1, 2, 3}

InSamples ==
    [x : {17}, y : {0}, D : Depths, N : {-1, 11}]
        \cup [x : {62}, y : {21}, D : Depths, N : {5}]

OutSamples == {[x |-> 40, y |-> 22, D |-> 3, N |-> 11]}

Samples == InSamples \cup OutSamples

\* the two samples of the specifications that interleave the animations
FewSamples ==
    {[x |-> 17, y |-> 0, D |-> 1, N |-> 11], [x |-> 40, y |-> 22, D |-> 3, N |-> 11]}

\* 0 <= y < 22 and 0 <= x < 80
InBounds(s) == 0 <= s.y /\ s.y < CanvasHeight /\ 0 <= s.x /\ s.x < CanvasWidth

\* o = x + 80 * y
Cell(s) == s.x + CanvasWidth * s.y

\* faulty variant of Closer: the comparison turned round
Farther(D, z) == D < z

\* D > zbuffer[o]
Closer(D, z) == D > z

\* the depth test and the two writes of one sample; cell o is index o + 1
DepthTest(out, zbuf, s) ==
    IF InBounds(s) /\ Closer(s.D, zbuf[Cell(s) + 1])
    THEN [output  |-> [out EXCEPT ![Cell(s) + 1] = RampChar(s.N)],
          zbuffer |-> [zbuf EXCEPT ![Cell(s) + 1] = s.D]]
    ELSE [output |-> out, zbuffer |-> zbuf]

\* faulty variant of BreakCells: the loop starts one cell late,
\* range(80, 1760, 80)
BreakCellsLate ==
    {k \in 0..(CanvasCells - 1) : k >= CanvasWidth /\ k % CanvasWidth = 0}

\* range(80 - 1, 1760, 80)
BreakCells ==
    {k \in 0..(CanvasCells - 1) :
        k >= CanvasWidth - 1 /\ (k - (CanvasWidth - 1)) % CanvasWidth = 0}

\* for k in range(80 - 1, 1760, 80): output[k] = "\n"
LineBreaks(out) ==
    [i \in 1..Len(out) |-> IF (i - 1) \in BreakCells THEN "\n" ELSE out[i]]

\* faulty variant of Advance: the angle advanced twice
AdvanceTwice(angle, step) == angle + step + step

\* self._A += 0.05 ; self._B += 0.03
Advance(angle, step) == angle + step

\* update_donut up to the double loop: fresh canvas, angles read
BeginSweep ==
    /\ output' = [i \in 1..CanvasCells |-> " "]
    /\ zbuffer' = [i \in 1..CanvasCells |-> 0]
    /\ A' = _A
    /\ B' = _B
    /\ sweep' = <<>>
    /\ pc' = "sweep"
    /\ UNCHANGED <<donut_size, donut_frame, _A, _B, frames>>

\* DonutWidget.on_mount calls update_donut
donut_on_mount ==
    /\ ~exited
    /\ pc = "unmounted"
    /\ BeginSweep
    /\ last' = "donut_on_mount"
    /\ UNCHANGED <<rainVars, shellVars>>

\* the 1/30 s interval calls update_donut
update_donut(maxTicks) ==
    /\ ~exited
    /\ pc = "idle"
    /\ frames < maxTicks
    /\ BeginSweep
    /\ last' = "update_donut"
    /\ UNCHANGED <<rainVars, shellVars>>

\* one iteration of the double loop
visit(S, maxLen) ==
    /\ pc = "sweep"
    /\ Len(sweep) < maxLen
    /\ \E s \in S :
          LET t == DepthTest(output, zbuffer, s)
          IN  /\ output' = t.output
              /\ zbuffer' = t.zbuffer
              /\ sweep' = Append(sweep, s)
    /\ last' = "visit"
    /\ UNCHANGED <<donut_size, donut_frame, _A, _B, A, B, pc, frames>>
    /\ UNCHANGED <<rainVars, shellVars>>

\* update_donut after the double loop: the line breaks and the frame
publish ==
    /\ pc = "sweep"
    /\ donut_frame' = LineBreaks(output)
    /\ frames' = frames + 1
    /\ output' = <<>>
    /\ zbuffer' = <<>>
    /\ pc' = "advance"
    /\ last' = "publish"
    /\ UNCHANGED <<donut_size, _A, _B, A, B, sweep>>
    /\ UNCHANGED <<rainVars, shellVars>>

\* the last two statements of update_donut; on_mount then registers the
\* interval
advance ==
    /\ pc = "advance"
    /\ _A' = Advance(_A, StepA)
    /\ _B' = Advance(_B, StepB)
    /\ pc' = "idle"
    /\ last' = "advance"
    /\ UNCHANGED <<donut_size, donut_frame, A, B, output, zbuffer, sweep, frames>>
    /\ UNCHANGED <<rainVars, shellVars>>

DonutSizes == {<<0, 0>>, <<80, 0>>, <<80, 22>>}

\* Textual lays the widget out again (a tab is shown or hidden, the terminal
\* is resized): only the size changes
DonutResize ==
    /\ ~exited /\ ~DonutBusy
    /\ \E s \in DonutSizes :
          /\ s # donut_size
          /\ donut_size' = s
    /\ last' = "donut_resize"
    /\ UNCHANGED <<donut_frame, _A, _B, A, B, output, zbuffer, sweep, pc, frames>>
    /\ UNCHANGED <<rainVars, shellVars>>

-----------------------------------------------------------------------------
(* ResumeApp: the rain sound *)

\* toggle_rain_sound(play): the value of get_busy() it leaves
toggle_rain_sound(play, isBusy) ==
    IF ~SOUND_LOADED THEN isBusy
    ELSE IF play /\ ~isBusy THEN TRUE
    ELSE IF ~play /\ isBusy THEN FALSE
    ELSE isBusy

\* watch_is_raining(raining): query_one raises when there is no rain button
\* and the except clause swallows it before toggle_rain_sound is reached
watch_is_raining(raining) ==
    IF ~button_mounted
    THEN UNCHANGED <<busy, button>>
    ELSE /\ busy' = toggle_rain_sound(raining, busy)
         /\ button' = IF raining
                      THEN [label |-> "Rain Sound: ON", variant |-> "success"]
                      ELSE [label |-> "Rain Sound: OFF", variant |-> "default"]

\* key "r"
action_toggle_rain ==
    /\ ~exited /\ ~DonutBusy
    /\ is_raining' = ~is_raining
    /\ watch_is_raining(~is_raining)
    /\ last' = "action_toggle_rain"
    /\ UNCHANGED <<SOUND_LOADED, button_mounted, exited, rainVars, donutVars>>

\* a press of the rain button
on_button_pressed ==
    /\ ~exited /\ ~DonutBusy
    /\ button_mounted
    /\ is_raining' = ~is_raining
    /\ watch_is_raining(~is_raining)
    /\ last' = "on_button_pressed"
    /\ UNCHANGED <<SOUND_LOADED, button_mounted, exited, rainVars, donutVars>>

\* key "q"
action_quit ==
    /\ ~exited /\ ~DonutBusy
    /\ busy' = IF SOUND_LOADED THEN FALSE ELSE busy
    /\ exited' = TRUE
    /\ last' = "action_quit"
    /\ UNCHANGED <<is_raining, SOUND_LOADED, button_mounted, button, rainVars, donutVars>>

\* the rows of the text render returns (no row when it joins no line)
RenderRows ==
    IF size[2] <= 0 \/ Len(rain_lines) = 0 THEN <<>> ELSE Split(render)

-----------------------------------------------------------------------------

Init ==
    /\ size = <<0, 0>>
    /\ rain_lines = <<>>
    /\ rain_timer = FALSE
    /\ drops = 0
    /\ rain_before = <<>>
    /\ donut_size = <<0, 0>>
    /\ donut_frame = <<>>
    /\ _A = 0
    /\ _B = 0
    /\ A = 0
    /\ B = 0
    /\ output = <<>>
    /\ zbuffer = <<>>
    /\ sweep = <<>>
    /\ pc = "unmounted"
    /\ frames = 0
    /\ is_raining = FALSE
    /\ SOUND_LOADED \in BOOLEAN
    /\ busy = FALSE
    /\ button_mounted \in BOOLEAN
    /\ button = [label |-> "Rain Sound: OFF", variant |-> "default"]
    /\ exited = FALSE
    /\ last = "init"

\* the application as it runs without a sound file and without the rain button
InitQuiet == Init /\ ~SOUND_LOADED /\ ~button_mounted

NextRain ==
    \/ rain_on_mount
    \/ update_rain
    \/ RainResize((0..MaxWidth) \X (0..MaxHeight))

SpecRain == InitQuiet /\ [][NextRain]_vars

\* the torus alone, over several ticks
NextDonut ==
    \/ donut_on_mount
    \/ update_donut(MaxTicks)
    \/ visit(Samples, MaxSweep)
    \/ publish
    \/ advance
    \/ DonutResize

SpecDonut == InitQuiet /\ [][NextDonut]_vars

\* one frame of the torus, with longer sweeps
NextDepth ==
    \/ donut_on_mount
    \/ visit(Samples, MaxSamples)
    \/ publish
    \/ advance

SpecDepth == InitQuiet /\ [][NextDepth]_vars

\* the sizes of the rain widget in the specifications that interleave it
\* with other handlers
FewSizes == {<<0, 0>>, <<1, 2>>}

\* both animations on the one event loop
NextAnim ==
    \/ rain_on_mount
    \/ update_rain
    \/ RainResize(FewSizes)
    \/ donut_on_mount
    \/ update_donut(MaxTicks)
    \/ visit(FewSamples, MaxSweep)
    \/ publish
    \/ advance

SpecAnim == InitQuiet /\ [][NextAnim]_vars

\* the key and button handlers of the application, with the rain widget
NextShell ==
    \/ action_toggle_rain
    \/ on_button_pressed
    \/ action_quit
    \/ rain_on_mount
    \/ update_rain
    \/ RainResize(FewSizes)

SpecShell == Init /\ [][NextShell]_vars

-----------------------------------------------------------------------------
(* Claims about RainWidget, checked under SpecRain *)

\* the last handler was a rain tick: rain_before and rain_lines are the
\* buffer before and after it, and size is the size it read
RainTicked == last \in {"rain_on_mount", "update_rain"}

Blank(width) == [i \in 1..width |-> " "]

\* a size with width <= 0 or height <= 0
Degenerate(s) == s[1] <= 0 \/ s[2] <= 0

\* C1 as stated: after a rain tick with width > 0 and height > 0, every row
\* r with 1 <= r < height is row r-1 of the buffer before the tick, padded
\* or truncated to width.
C1_ShiftEveryRow ==
    (RainTicked /\ ~Degenerate(size)) =>
        \A r \in 1..(size[2] - 1) :
            /\ r <= Len(rain_before)
            /\ rain_lines[r + 1] = LJustCut(rain_before[r], size[1])

\* C1 amended: after a rain tick with width > 0 and height > 0, every row r
\* with 1 <= r < height whose predecessor row r-1 exists in the buffer before
\* the tick is that row padded or truncated to width; a row whose
\* predecessor does not exist is width spaces; row 0 is a row of width
\* characters drawn from space and the four rain characters.
C1_Shift ==
    (RainTicked /\ ~Degenerate(size)) =>
        /\ Len(rain_lines) = size[2]
        /\ rain_lines[1] \in [1..size[1] -> {" "} \cup RainChars]
        /\ \A r \in 1..(size[2] - 1) :
              rain_lines[r + 1] =
                  IF r <= Len(rain_before)
                  THEN LJustCut(rain_before[r], size[1])
                  ELSE Blank(size[1])

\* a tick has moved a row holding a drop down by one, changing its width
C1_Witness ==
    /\ RainTicked /\ ~Degenerate(size)
    /\ \E r \in 1..(size[2] - 1) :
          /\ r <= Len(rain_before)
          /\ Glyphs(rain_before[r]) > 0
          /\ Len(rain_before[r]) # size[1]
          /\ Glyphs(rain_lines[r + 1]) > 0

\* C4: a rain tick with width > 0 and height > 0 leaves exactly height rows
\* of exactly width characters, whatever the buffer was before.
C4_Shape ==
    (RainTicked /\ ~Degenerate(size)) =>
        /\ Len(rain_lines) = size[2]
        /\ \A i \in 1..Len(rain_lines) : Len(rain_lines[i]) = size[1]

\* the tick found a non-empty buffer with another number of rows and
\* another row width than the widget has now
C4_Witness ==
    /\ RainTicked /\ ~Degenerate(size)
    /\ Len(rain_before) > 0
    /\ Len(rain_before) # size[2]
    /\ \A i \in 1..Len(rain_before) : Len(rain_before[i]) # size[1]

\* C5: a rain tick with width <= 0 or height <= 0 leaves rain_lines as it was
\* (and so adds no top row).
C5_IdleNoOp ==
    (RainTicked /\ Degenerate(size)) => rain_lines = rain_before

\* a tick ran on a non-empty buffer while exactly one dimension was 0
C5_Witness ==
    /\ RainTicked
    /\ Degenerate(size)
    /\ size # <<0, 0>>
    /\ Len(rain_lines) > 0

\* C7 as stated: in every reachable state every row of the rain buffer, and
\* every row render returns, is as long as the current widget width.
C7_RowsFollowWidth ==
    /\ \A i \in 1..Len(rain_lines) : Len(rain_lines[i]) = size[1]
    /\ \A k \in 1..Len(RenderRows) : Len(RenderRows[k]) = size[1]

\* C7 amended: all rows of the rain buffer always have one common length;
\* right after a rain tick with width > 0 and height > 0 that length is the
\* current widget width, for the rows of the buffer and for the rows render
\* returns; a resize leaves the buffer as it is.
C7_RowsFollowLastTick ==
    /\ [](/\ \A i, j \in 1..Len(rain_lines) :
                Len(rain_lines[i]) = Len(rain_lines[j])
          /\ (RainTicked /\ ~Degenerate(size)) =>
                /\ \A i \in 1..Len(rain_lines) : Len(rain_lines[i]) = size[1]
                /\ \A k \in 1..Len(RenderRows) : Len(RenderRows[k]) = size[1])
    /\ [][last' = "rain_resize" => rain_lines' = rain_lines]_vars

\* a tick has rebuilt, at the current width, a buffer whose rows were
\* narrower and held a drop
C7_Witness ==
    /\ RainTicked /\ ~Degenerate(size)
    /\ \E i \in 1..Len(rain_before) :
          /\ Len(rain_before[i]) < size[1]
          /\ Glyphs(rain_before[i]) > 0
    /\ \A i \in 1..Len(rain_lines) : Len(rain_lines[i]) = size[1]

-----------------------------------------------------------------------------
(* Claims about DonutWidget, checked under SpecDonut and SpecDepth *)

FrameRows == Split(donut_frame)

\* C2 as stated: after every torus tick the published frame, split on line
\* breaks, has exactly 22 rows of exactly 80 characters.
C2_Rows80 ==
    frames > 0 =>
        LET rows == FrameRows
        IN  /\ Len(rows) = CanvasHeight
            /\ \A k \in 1..Len(rows) : Len(rows[k]) = CanvasWidth

\* C2 amended: after every torus tick the published frame is 1760
\* characters, 22 rows of exactly 79 characters each followed by a line
\* break: split on line breaks it has 23 pieces, the first 22 of 79
\* characters and an empty last one.
C2_Rows79 ==
    frames > 0 =>
        LET rows == FrameRows
        IN  /\ Len(donut_frame) = CanvasCells
            /\ Len(rows) = CanvasHeight + 1
            /\ \A k \in 1..CanvasHeight : Len(rows[k]) = CanvasWidth - 1
            /\ Len(rows[CanvasHeight + 1]) = 0

\* a frame that shows a sample has been published
C2_Witness ==
    /\ frames > 0
    /\ \E i \in 1..Len(donut_frame) : donut_frame[i] \notin {" ", "\n"}

\* the in-bounds samples of the sweep that fall in cell o
At(o) == {i \in 1..Len(sweep) : InBounds(sweep[i]) /\ Cell(sweep[i]) = o}

\* the first visited of the samples of greatest depth at cell o
Nearest(o) ==
    CHOOSE i \in At(o) :
        \A j \in At(o) :
            \/ sweep[j].D < sweep[i].D
            \/ (sweep[j].D = sweep[i].D /\ i <= j)

\* the frame of the sweep has just been published
Published == pc \in {"advance", "idle"}

\* C3 as stated: of any two in-bounds samples of one sweep that fall in the
\* same cell with different depths, the one of larger depth gives the
\* character of that cell in the frame, whichever was visited first.
C3_LargerOfTwoShown ==
    Published =>
        \A i, j \in 1..Len(sweep) :
            (/\ InBounds(sweep[i]) /\ InBounds(sweep[j])
             /\ Cell(sweep[i]) = Cell(sweep[j])
             /\ sweep[i].D < sweep[j].D)
            => donut_frame[Cell(sweep[j]) + 1] = RampChar(sweep[j].N)

\* C3 amended: every cell of the frame outside column 79 shows the character
\* of the sample of greatest depth among all in-bounds samples of the sweep
\* that fall in it (the first visited of them when several share that
\* depth), whatever the order of the sweep, and a space when none falls in
\* it; so of two such samples the one of smaller depth never gives the
\* character.  Column 79 holds the line breaks.
C3_NearestShown ==
    Published =>
        LET hit == {Cell(sweep[i]) : i \in {k \in 1..Len(sweep) : InBounds(sweep[k])}}
        IN  \A o \in 0..(CanvasCells - 1) :
                donut_frame[o + 1] =
                    IF o % CanvasWidth = CanvasWidth - 1 THEN "\n"
                    ELSE IF o \notin hit THEN " "
                    ELSE RampChar(sweep[Nearest(o)].N)

\* a cell was hit twice, first by the sample of larger depth, and the two
\* samples differ in character
C3_Witness ==
    /\ Published
    /\ \E i, j \in 1..Len(sweep) :
          /\ i < j
          /\ InBounds(sweep[i]) /\ InBounds(sweep[j])
          /\ Cell(sweep[i]) = Cell(sweep[j])
          /\ sweep[i].D > sweep[j].D
          /\ RampChar(sweep[i].N) # RampChar(sweep[j].N)

\* C6: a torus tick made while the widget's width or height is <= 0 leaves
\* the published frame as it was.
C6_TorusIdleNoOp ==
    [][(pc = "sweep" /\ pc' = "advance" /\ Degenerate(donut_size))
          => donut_frame' = donut_frame]_vars

\* C8: the angles start at (0, 0); tick k computes and publishes its frame
\* from k-1 increments of each angle and only then adds one increment to
\* each; the frame is assigned once per tick, and the angles move by one
\* increment per tick.
C8_FramePerTick ==
    /\ [](/\ pc = "unmounted" =>
                frames = 0 /\ _A = 0 /\ _B = 0 /\ donut_frame = <<>>
          /\ pc = "sweep" =>
                /\ A = StepA * frames /\ B = StepB * frames
                /\ _A = A /\ _B = B
          /\ pc = "advance" =>
                /\ frames >= 1
                /\ A = StepA * (frames - 1) /\ B = StepB * (frames - 1)
                /\ _A = A /\ _B = B
          /\ pc = "idle" =>
                /\ frames >= 1
                /\ A = StepA * (frames - 1) /\ B = StepB * (frames - 1)
                /\ _A = StepA * frames /\ _B = StepB * frames)
    /\ [][/\ donut_frame' # donut_frame =>
                pc = "sweep" /\ pc' = "advance" /\ frames' = frames + 1
          /\ (_A' # _A \/ _B' # _B) =>
                /\ pc = "advance" /\ pc' = "idle"
                /\ _A' = _A + StepA /\ _B' = _B + StepB
                /\ donut_frame' = donut_frame]_vars

\* the second tick is over
C8_Witness == pc = "idle" /\ frames = 2 /\ A = StepA /\ _A = StepA + StepA

-----------------------------------------------------------------------------
(* Claims about the two animations together, checked under SpecAnim, and  *)
(* about the rain sound, checked under SpecShell                           *)

RainHandlers == {"rain_on_mount", "update_rain"}
DonutHandlers == {"donut_on_mount", "update_donut", "visit", "publish", "advance"}

\* C9: a step of a torus tick leaves the rain buffer as it is, and a rain
\* tick leaves the torus angles and the published torus frame as they are.
C9_Independent ==
    [][/\ last' \in DonutHandlers => rain_lines' = rain_lines
       /\ last' \in RainHandlers =>
             /\ _A' = _A /\ _B' = _B
             /\ donut_frame' = donut_frame]_vars

\* a rain tick has put a drop in the buffer between two torus ticks, with a
\* torus frame showing a sample already published
C9_Witness ==
    /\ last \in RainHandlers
    /\ frames = 1 /\ pc = "idle"
    /\ \E i \in 1..Len(donut_frame) : donut_frame[i] = "@"
    /\ \E r \in 1..Len(rain_lines) : Glyphs(rain_lines[r]) > 0

\* C10: with the sound file loaded and before quit, the rain sound plays
\* exactly when is_raining is true, with or without the rain button.
C10_SoundFollowsRain ==
    (SOUND_LOADED /\ ~exited) => (busy <=> is_raining)

====
